---- MODULE Spec2Model ----
(***************************************************************************)
(* Resolver layer of saleor/graphql/product/types/products.py for one      *)
(* request: the field resolvers of ProductVariant and Product, the         *)
(* per-request batch loaders they call, the deferred values (promises)     *)
(* the loaders hand out and the continuations chained on them with then.   *)
(***************************************************************************)
EXTENDS Integers, Sequences, FiniteSets, TLC

(* ------------------------------ bounds -------------------------------- *)
\* Available quantities a fetch may return are -1..MaxQty.
MaxQty == 1
\* A request resolves at most MaxCalls fields.
MaxCalls == 3
\* A product has at most MaxImages images.
MaxImages == 3
\* The server handles at most MaxRequests requests.
MaxRequests == 2

(* ------------------------- program constants -------------------------- *)
\* settings.MAX_CHECKOUT_LINE_QUANTITY, the sentinel of untracked variants.
MAX_CHECKOUT_LINE_QUANTITY == 50
\* ProductPermissions.MANAGE_PRODUCTS
MANAGE_PRODUCTS == "product.manage_products"

\* Python's None where a string is expected (country code, channel slug).
None == "None"

\* The catalog of the request: two variants of one product.
Variants == {1, 2}
Products == {11}
Categories == {21}
ProductOf(v) == 11
Countries == {"US"}
CountryArgs == {None} \cup Countries
Quantities == (0 - 1)..MaxQty
NoErr == <<>>

VARIABLES
    perms,            \* info.context.user's permissions
    country,          \* info.context.country
    track_inventory,  \* ProductVariant.track_inventory of each variant
    cache,            \* per loader key: the promise the loader handed out
    fetchCount,       \* per loader key: times the batched fetch was given the key
    loadCalls,        \* per loader key: times a resolver called load with it
    fieldResult,      \* per field selection: what its resolver returned
    nCalls,           \* resolver calls made so far in the request
    thenP,            \* per variant: the promise of isAvailable's then
    pricing,          \* per pricing field: the promise of its then chain
    category_id,      \* Product.category_id of each product
    default_channel,  \* slug of the configured default channel, or None
    channel_lookups,  \* times the default channel was looked up
    request,          \* number of the request being served
    loadedBefore,     \* per loader key: earlier requests that loaded it
    thumbnail         \* per product: the promise of thumbnail's then

\* What the resolvers of stock, gated and pricing fields never touch.
rest == <<category_id, default_channel, channel_lookups, request,
          loadedBefore, thumbnail>>

vars == <<perms, country, track_inventory, cache, fetchCount,
          loadCalls, fieldResult, nCalls, thenP, pricing, rest>>

(* --------------------------- loaders ---------------------------------- *)
QTY == "AvailableQuantityByProductVariantIdAndCountryCodeLoader"
LISTINGS == "ProductChannelListingByProductIdLoader"
PRODUCT == "ProductByIdLoader"
LISTING == "ProductChannelListingByProductIdAndChanneSlugLoader"
COLLECTIONS == "CollectionsByProductIdLoader"
VARIANTS == "ProductVariantsByProductIdLoader"
DISCOUNTS == "DiscountsByDateTimeLoader"
IMAGES == "ImagesByProductIdLoader"
CATEGORY == "CategoryByIdLoader"
Loaders ==
    {QTY, LISTINGS, PRODUCT, LISTING, COLLECTIONS, VARIANTS, DISCOUNTS, IMAGES,
     CATEGORY}
\* info.context.request_time
request_time == 1000

\* A loader key is <<loader, id, string part>>.
QtyKey(id, cc) == <<QTY, id, cc>>
ListingsKey(id) == <<LISTINGS, id, None>>
ProductKey(id) == <<PRODUCT, id, None>>
ListingKey(id, slug) == <<LISTING, id, slug>>
CollectionsKey(id) == <<COLLECTIONS, id, None>>
VariantsKey(id) == <<VARIANTS, id, None>>
DiscountsKey(time) == <<DISCOUNTS, time, None>>
ImagesKey(id) == <<IMAGES, id, None>>
CategoryKey(id) == <<CATEGORY, id, None>>
AllKeys ==
    {QtyKey(v, cc) : v \in Variants, cc \in CountryArgs}
    \cup {ListingsKey(p) : p \in Products}
    \cup {ProductKey(p) : p \in Products}
    \cup {ListingKey(p, s) : p \in Products, s \in {"", "default-channel"}}
    \cup {CollectionsKey(p) : p \in Products}
    \cup {VariantsKey(p) : p \in Products}
    \cup {DiscountsKey(request_time)}
    \cup {ImagesKey(p) : p \in Products}
    \cup {CategoryKey(c) : c \in Categories}
KeysOf(L) == {k \in AllKeys : k[1] = L}
\* The rows a fetch other than the quantity fetch may return: opaque, two of
\* them so that a stale or misplaced row shows.
Rows == {1, 2}
\* The image lists the images fetch may return for a product: its images in
\* their stored order, none twice.
Images == 1..MaxImages
ImageLists ==
    UNION {{s \in [1..n -> Images] : \A i, j \in 1..n : i # j => s[i] # s[j]} :
              n \in 0..MaxImages}
ValuesOf(L) ==
    IF L = QTY THEN Quantities ELSE IF L = IMAGES THEN ImageLists ELSE Rows

Absent == [st |-> "absent", val |-> 0, err |-> NoErr]
Terminal(p) == p.st \in {"resolved", "failed"}
\* The error a failed fetch of loader L raises.
UpstreamFailure(L) == <<"UpstreamFailure", L>>
ErrOf(k) == cache[k].err

\* DataLoader.load over a set of keys: a key never seen gets a pending
\* promise and joins the loader's next batch, a key seen before returns the
\* cached promise.
LoadAll(keys) ==
    /\ cache' = [k \in AllKeys |->
                    IF k \in keys /\ cache[k].st = "absent"
                    THEN [st |-> "pending", val |-> 0, err |-> NoErr]
                    ELSE cache[k]]
    /\ loadCalls' = [k \in AllKeys |->
                    IF k \in keys THEN loadCalls[k] + 1 ELSE loadCalls[k]]

Load(k) == LoadAll({k})

Batch(L) == {k \in KeysOf(L) : cache[k].st = "pending"}

\* The loader's batch function run on the pending keys: either a value per
\* key, or the fetch fails and every promise of the batch is rejected.
Dispatch(L) ==
    /\ Batch(L) # {}
    /\ fetchCount' = [k \in AllKeys |->
                        IF k \in Batch(L) THEN fetchCount[k] + 1
                        ELSE fetchCount[k]]
    /\ \/ \E vals \in [Batch(L) -> ValuesOf(L)] :
              cache' = [k \in AllKeys |->
                          IF k \in Batch(L)
                          THEN [st |-> "resolved", val |-> vals[k],
                                err |-> NoErr]
                          ELSE cache[k]]
       \/ cache' = [k \in AllKeys |->
                          IF k \in Batch(L)
                          THEN [st |-> "failed", val |-> 0,
                                err |-> UpstreamFailure(L)]
                          ELSE cache[k]]
    /\ UNCHANGED <<rest, perms, country, track_inventory, loadCalls, fieldResult,
                   nCalls, thenP, pricing>>

(* ------------------------ context wrapper ----------------------------- *)
VariantNode(v) ==
    [pk |-> v, product_id |-> ProductOf(v), track_inventory |-> track_inventory[v],
     name |-> <<"name", v>>, sku |-> <<"sku", v>>]
ChannelContext(node, channel_slug) ==
    [node |-> node, channel_slug |-> channel_slug]
ChannelSlugs == {None, "", "default-channel"}
\* Python truthiness of an optional string: None and "" are falsy.
Truthy(x) == x # None /\ x # ""
ProductNode(p) ==
    [pk |-> p, category_id |-> category_id[p], name |-> <<"name", p>>,
     slug |-> <<"slug", p>>]
VariantRoots ==
    {ChannelContext(VariantNode(v), s) : v \in Variants, s \in ChannelSlugs}
ProductRoots ==
    {ChannelContext(ProductNode(p), s) : p \in Products, s \in ChannelSlugs}
\* The wrapper a resolver that never reads channel_slug is called with.
VariantRoot(v) == ChannelContext(VariantNode(v), "default-channel")
ProductRoot(p) == ChannelContext(ProductNode(p), "default-channel")

(* ------------------------- field results ------------------------------ *)
Unset == [tag |-> "unset"]
Value(x) == [tag |-> "value", v |-> x]
Deferred(p) == [tag |-> "deferred", p |-> p]
Failure(e) == [tag |-> "error", e |-> e]
AuthorizationError == "AuthorizationError"

StockQuantityField(v) == <<"ProductVariant.stockQuantity", v, None>>
QuantityAvailableField(v, cc) == <<"ProductVariant.quantityAvailable", v, cc>>
IsAvailableField(v) == <<"ProductVariant.isAvailable", v, None>>
StockFields ==
    {StockQuantityField(v) : v \in Variants}
    \cup {IsAvailableField(v) : v \in Variants}
    \cup {QuantityAvailableField(v, cc) : v \in Variants, cc \in CountryArgs}

\* The fields of the claim on permissions, <<type, field>>.
GatedVariantFields ==
    {"margin", "costPrice", "quantity", "quantityAllocated", "stocks",
     "digitalContent"}
GatedProductFields == {"purchaseCost", "margin", "channelListing"}
VariantField(name, v, arg) == <<"ProductVariant." \o name, v, arg>>
ProductField(name, p, arg) == <<"Product." \o name, p, arg>>
GatedFields ==
    {VariantField(f, v, None) : f \in GatedVariantFields \ {"stocks"}, v \in Variants}
    \cup {VariantField("stocks", v, cc) : v \in Variants, cc \in CountryArgs}
    \cup {ProductField(f, p, None) : f \in GatedProductFields, p \in Products}
IdFields ==
    {VariantField("id", v, s) : v \in Variants, s \in ChannelSlugs}
    \cup {ProductField("id", p, s) : p \in Products, s \in ChannelSlugs}
PricingFields ==
    {VariantField("pricing", v, s) : v \in Variants, s \in ChannelSlugs}
    \cup {ProductField("pricing", p, s) : p \in Products, s \in ChannelSlugs}
FieldKeys == StockFields \cup GatedFields \cup IdFields \cup PricingFields

Called(fk) == fk \in DOMAIN fieldResult
Result(fk) == IF Called(fk) THEN fieldResult[fk] ELSE Unset
CanCall(fk) == ~Called(fk) /\ nCalls < MaxCalls

\* The resolver of field fk returns r.
Return(fk, r) ==
    /\ fieldResult' = fieldResult @@ (fk :> r)
    /\ nCalls' = nCalls + 1

(* ------------------- ProductVariant stock resolvers ------------------- *)
\* resolve_quantity_available returning the sentinel only when no country
\* code is given.
resolve_quantity_available_sentinel_without_country(root, country_code) ==
    LET fk == QuantityAvailableField(root.node.pk, country_code) IN
    /\ CanCall(fk)
    /\ IF ~root.node.track_inventory /\ country_code = None
       THEN /\ Return(fk, Value(MAX_CHECKOUT_LINE_QUANTITY))
            /\ UNCHANGED <<cache, loadCalls>>
       ELSE /\ Load(QtyKey(root.node.pk, country_code))
            /\ Return(fk, Deferred(QtyKey(root.node.pk, country_code)))
    /\ UNCHANGED <<rest, perms, country, track_inventory, fetchCount, thenP, pricing>>

\* resolve_quantity_available loading through a loader kept outside
\* info.context: a key an earlier request loaded comes back settled, with
\* the value or error that request was given.
resolve_quantity_available_shared_loader(root, country_code) ==
    LET fk == QuantityAvailableField(root.node.pk, country_code)
        k == QtyKey(root.node.pk, country_code) IN
    /\ CanCall(fk)
    /\ IF ~root.node.track_inventory
       THEN /\ Return(fk, Value(MAX_CHECKOUT_LINE_QUANTITY))
            /\ UNCHANGED <<cache, loadCalls>>
       ELSE /\ IF loadedBefore[k] > 0 /\ cache[k].st = "absent"
               THEN /\ loadCalls' = [loadCalls EXCEPT ![k] = @ + 1]
                    /\ \/ \E q \in Quantities :
                              cache' = [cache EXCEPT ![k] =
                                  [st |-> "resolved", val |-> q, err |-> NoErr]]
                       \/ cache' = [cache EXCEPT ![k] =
                              [st |-> "failed", val |-> 0,
                               err |-> UpstreamFailure(QTY)]]
               ELSE Load(k)
            /\ Return(fk, Deferred(k))
    /\ UNCHANGED <<rest, perms, country, track_inventory, fetchCount, thenP, pricing>>

resolve_quantity_available(root, country_code) ==
    LET fk == QuantityAvailableField(root.node.pk, country_code) IN
    /\ CanCall(fk)
    /\ IF ~root.node.track_inventory
       THEN /\ Return(fk, Value(MAX_CHECKOUT_LINE_QUANTITY))
            /\ UNCHANGED <<cache, loadCalls>>
       ELSE /\ Load(QtyKey(root.node.pk, country_code))
            /\ Return(fk, Deferred(QtyKey(root.node.pk, country_code)))
    /\ UNCHANGED <<rest, perms, country, track_inventory, fetchCount, thenP, pricing>>

\* resolve_stock_quantity loading the key without the request's country.
resolve_stock_quantity_without_country(root) ==
    LET fk == StockQuantityField(root.node.pk) IN
    /\ CanCall(fk)
    /\ IF ~root.node.track_inventory
       THEN /\ Return(fk, Value(MAX_CHECKOUT_LINE_QUANTITY))
            /\ UNCHANGED <<cache, loadCalls>>
       ELSE /\ Load(QtyKey(root.node.pk, None))
            /\ Return(fk, Deferred(QtyKey(root.node.pk, None)))
    /\ UNCHANGED <<rest, perms, country, track_inventory, fetchCount, thenP, pricing>>

resolve_stock_quantity(root) ==
    LET fk == StockQuantityField(root.node.pk) IN
    /\ CanCall(fk)
    /\ IF ~root.node.track_inventory
       THEN /\ Return(fk, Value(MAX_CHECKOUT_LINE_QUANTITY))
            /\ UNCHANGED <<cache, loadCalls>>
       ELSE /\ Load(QtyKey(root.node.pk, country))
            /\ Return(fk, Deferred(QtyKey(root.node.pk, country)))
    /\ UNCHANGED <<rest, perms, country, track_inventory, fetchCount, thenP, pricing>>

NoThen == [st |-> "none", val |-> FALSE, input |-> 0, err |-> NoErr]
PendingThen == [st |-> "pending", val |-> FALSE, input |-> 0, err |-> NoErr]

\* resolve_is_available loading through a loader of its own, which shares no
\* cache with the request's loader: the key is queued again.
resolve_is_available_own_loader(root) ==
    LET fk == IsAvailableField(root.node.pk)
        k == QtyKey(root.node.pk, country) IN
    /\ CanCall(fk)
    /\ IF ~root.node.track_inventory
       THEN /\ Return(fk, Value(TRUE))
            /\ UNCHANGED <<cache, loadCalls, thenP>>
       ELSE /\ cache' = [cache EXCEPT ![k] =
                            [st |-> "pending", val |-> 0, err |-> NoErr]]
            /\ loadCalls' = [loadCalls EXCEPT ![k] = @ + 1]
            /\ thenP' = [thenP EXCEPT ![root.node.pk] = PendingThen]
            /\ Return(fk, Deferred(<<"then", fk>>))
    /\ UNCHANGED <<rest, perms, country, track_inventory, fetchCount, pricing>>

\* resolve_is_available calling load before it tests track_inventory.
resolve_is_available_loading_first(root) ==
    LET fk == IsAvailableField(root.node.pk) IN
    /\ CanCall(fk)
    /\ Load(QtyKey(root.node.pk, country))
    /\ IF ~root.node.track_inventory
       THEN /\ Return(fk, Value(TRUE))
            /\ UNCHANGED thenP
       ELSE /\ thenP' = [thenP EXCEPT ![root.node.pk] = PendingThen]
            /\ Return(fk, Deferred(<<"then", fk>>))
    /\ UNCHANGED <<rest, perms, country, track_inventory, fetchCount, pricing>>

resolve_is_available(root) ==
    LET fk == IsAvailableField(root.node.pk) IN
    /\ CanCall(fk)
    /\ IF ~root.node.track_inventory
       THEN /\ Return(fk, Value(TRUE))
            /\ UNCHANGED <<cache, loadCalls, thenP>>
       ELSE /\ Load(QtyKey(root.node.pk, country))
            /\ thenP' = [thenP EXCEPT ![root.node.pk] = PendingThen]
            /\ Return(fk, Deferred(<<"then", fk>>))
    /\ UNCHANGED <<rest, perms, country, track_inventory, fetchCount, pricing>>

\* is_variant_in_stock accepting a quantity of zero.
is_variant_in_stock_or_zero(available_quantity) == available_quantity >= 0

\* The continuation resolve_is_available chains on the loaded quantity.
is_variant_in_stock(available_quantity) == available_quantity > 0

\* The promise of .then(is_variant_in_stock) settles once the loaded
\* promise has: with the continuation's result, or with the same error.
IsAvailableThen(v) ==
    LET src == cache[QtyKey(v, country)] IN
    /\ Called(IsAvailableField(v))
    /\ thenP[v].st = "pending"
    /\ Terminal(src)
    /\ thenP' = [thenP EXCEPT ![v] =
                    IF src.st = "resolved"
                    THEN [st |-> "resolved",
                          val |-> is_variant_in_stock(src.val),
                          input |-> src.val, err |-> NoErr]
                    ELSE [st |-> "failed", val |-> FALSE, input |-> 0,
                          err |-> ErrOf(QtyKey(v, country))]]
    /\ UNCHANGED <<rest, perms, country, track_inventory, cache, fetchCount,
                   loadCalls, fieldResult, nCalls, pricing>>

(* ------------------------ authorization gate -------------------------- *)
\* @permission_required(perm) around the resolver of field fk: without the
\* permission the call raises and the resolver body never runs.
permission_required(perm, fk, body) ==
    IF perm \in perms
    THEN body
    ELSE /\ Return(fk, Failure(AuthorizationError))
         /\ UNCHANGED <<cache, loadCalls>>

\* A resolver that returns r without touching a loader.
Plain(fk, r) ==
    /\ Return(fk, r)
    /\ UNCHANGED <<cache, loadCalls>>

Frame ==
    UNCHANGED <<rest, perms, country, track_inventory, fetchCount, thenP, pricing>>

Variant_resolve_stocks(root, country_code) ==
    LET fk == VariantField("stocks", root.node.pk, country_code) IN
    /\ CanCall(fk)
    /\ permission_required(MANAGE_PRODUCTS, fk,
          IF ~Truthy(country_code)
          THEN Plain(fk, Value(<<"stocks", root.node.pk>>))
          ELSE Plain(fk, Value(<<"stocks.for_country", root.node.pk, country_code>>)))
    /\ Frame

Variant_resolve_digital_content(root) ==
    LET fk == VariantField("digitalContent", root.node.pk, None) IN
    /\ CanCall(fk)
    /\ permission_required(MANAGE_PRODUCTS, fk,
          Plain(fk, Value(<<"digital_content", root.node.pk>>)))
    /\ Frame

Variant_resolve_margin(root) ==
    LET fk == VariantField("margin", root.node.pk, None) IN
    /\ CanCall(fk)
    /\ permission_required(MANAGE_PRODUCTS, fk,
          Plain(fk, Value(<<"get_margin_for_variant", root.node.pk>>)))
    /\ Frame

\* resolve_cost_price without its @permission_required decorator.
Variant_resolve_cost_price_ungated(root) ==
    LET fk == VariantField("costPrice", root.node.pk, None) IN
    /\ CanCall(fk)
    /\ Plain(fk, Value(<<"cost_price", root.node.pk>>))
    /\ Frame

Variant_resolve_cost_price(root) ==
    LET fk == VariantField("costPrice", root.node.pk, None) IN
    /\ CanCall(fk)
    /\ permission_required(MANAGE_PRODUCTS, fk,
          Plain(fk, Value(<<"cost_price", root.node.pk>>)))
    /\ Frame

Variant_resolve_quantity(root) ==
    LET fk == VariantField("quantity", root.node.pk, None) IN
    /\ CanCall(fk)
    /\ permission_required(MANAGE_PRODUCTS, fk,
          Plain(fk, Value(<<"get_available_quantity", root.node.pk, country>>)))
    /\ Frame

Variant_resolve_quantity_allocated(root) ==
    LET fk == VariantField("quantityAllocated", root.node.pk, None) IN
    /\ CanCall(fk)
    /\ permission_required(MANAGE_PRODUCTS, fk,
          Plain(fk, Value(<<"get_quantity_allocated", root.node.pk, country>>)))
    /\ Frame

\* The period argument of revenue.
ReportingPeriods == {"TODAY", "THIS_MONTH"}
reporting_period_to_date(period) == <<"reporting_period_to_date", period>>
RevenueFields ==
    {VariantField("revenue", v, period) : v \in Variants, period \in ReportingPeriods}

Variant_resolve_revenue(root, period) ==
    LET fk == VariantField("revenue", root.node.pk, period)
        start_date == reporting_period_to_date(period) IN
    /\ CanCall(fk)
    /\ permission_required(MANAGE_PRODUCTS, fk,
          Plain(fk, Value(<<"calculate_revenue_for_variant", root.node.pk,
                           start_date>>)))
    /\ Frame

Product_resolve_purchase_cost(root) ==
    LET fk == ProductField("purchaseCost", root.node.pk, None) IN
    /\ CanCall(fk)
    /\ permission_required(MANAGE_PRODUCTS, fk,
          Plain(fk, Value(<<"purchase_cost", root.node.pk>>)))
    /\ Frame

Product_resolve_margin(root) ==
    LET fk == ProductField("margin", root.node.pk, None) IN
    /\ CanCall(fk)
    /\ permission_required(MANAGE_PRODUCTS, fk,
          Plain(fk, Value(<<"Margin", root.node.pk>>)))
    /\ Frame

\* resolve_channel_listing checking the permission after its body ran.
Product_resolve_channel_listing_checked_after(root) ==
    LET fk == ProductField("channelListing", root.node.pk, None) IN
    /\ CanCall(fk)
    /\ Load(ListingsKey(root.node.pk))
    /\ IF MANAGE_PRODUCTS \in perms
       THEN Return(fk, Deferred(ListingsKey(root.node.pk)))
       ELSE Return(fk, Failure(AuthorizationError))
    /\ Frame

Product_resolve_channel_listing(root) ==
    LET fk == ProductField("channelListing", root.node.pk, None) IN
    /\ CanCall(fk)
    /\ permission_required(MANAGE_PRODUCTS, fk,
          /\ Load(ListingsKey(root.node.pk))
          /\ Return(fk, Deferred(ListingsKey(root.node.pk))))
    /\ Frame

(* ------------------------- identity resolution ------------------------ *)
\* None where a primary key is expected.
NoId == 0

\* resolve_id looking the key up on the wrapper, which has none.
resolve_id_on_wrapper(root) == NoId

resolve_id(root) == root.node.pk

\* The id field of a wrapped variant or product.
ResolveId(type, root) ==
    LET fk == <<type \o ".id", root.node.pk, root.channel_slug>> IN
    /\ CanCall(fk)
    /\ Plain(fk, Value(resolve_id(root)))
    /\ Frame

(* ------------------------------ pricing ------------------------------- *)
\* The promise a pricing resolver returns: the stage names the load whose
\* continuation runs next, the loaded values are bound as the nested
\* closures receive them, calls counts the aggregator's invocations.
NoPricing ==
    [stage |-> "none", st |-> "none", err |-> NoErr, discounts |-> 0,
     product |-> 0, channel_listing |-> 0, variants |-> 0, collections |-> 0,
     calls |-> 0, val |-> <<>>]
PendingPricing == [NoPricing EXCEPT !.stage = "discounts", !.st = "pending"]
Pricing(fk) == IF fk \in DOMAIN pricing THEN pricing[fk] ELSE NoPricing

PricingFrame ==
    UNCHANGED <<rest, perms, country, track_inventory, cache, fetchCount, loadCalls,
                fieldResult, nCalls, thenP>>

\* product.utils.availability.get_variant_availability and
\* get_product_availability: functions of their arguments.
\* Arguments: variant, product, channel_listing, collections, discounts,
\* country.
get_variant_availability(v, p, cl, co, d, ctry) ==
    <<"VariantAvailability", v, p, cl, co, d, ctry>>
\* Arguments: product, channel_listing, variants, collections, discounts,
\* country.
get_product_availability(p, cl, vs, co, d, ctry) ==
    <<"ProductAvailability", p, cl, vs, co, d, ctry>>
VariantPricingInfo(availability) == <<"VariantPricingInfo", availability>>
ProductPricingInfo(availability) == <<"ProductPricingInfo", availability>>

\* p.then(f) with f returning a further then: once the loaded promise is
\* resolved f is called with its value, which the inner closures keep.
Then(fk, stage, key, arg, next) ==
    /\ fk \in DOMAIN pricing
    /\ pricing[fk].st = "pending"
    /\ pricing[fk].stage = stage
    /\ cache[key].st = "resolved"
    /\ pricing' = [pricing EXCEPT ![fk] =
                      [@ EXCEPT ![arg] = cache[key].val, !.stage = next]]
    /\ PricingFrame

\* A then without a rejection handler: the error of the awaited promise
\* becomes the error of the chain, and no continuation runs.
Rejected(fk, key) ==
    /\ fk \in DOMAIN pricing
    /\ pricing[fk].st = "pending"
    /\ cache[key].st = "failed"
    /\ pricing' = [pricing EXCEPT ![fk] =
                      [@ EXCEPT !.st = "failed", !.stage = "failed",
                                !.err = ErrOf(key)]]
    /\ PricingFrame

(* ProductVariant.resolve_pricing *)
\* resolve_pricing leaving the collections load to the continuation that
\* needs it.
Variant_resolve_pricing_collections_later(root) ==
    LET fk == VariantField("pricing", root.node.pk, root.channel_slug) IN
    /\ CanCall(fk)
    /\ IF ~Truthy(root.channel_slug)
       THEN /\ Plain(fk, Value(None))
            /\ UNCHANGED pricing
       ELSE /\ LoadAll({ProductKey(root.node.product_id),
                        ListingKey(root.node.product_id, root.channel_slug),
                        DiscountsKey(request_time)})
            /\ pricing' = pricing @@ (fk :> PendingPricing)
            /\ Return(fk, Deferred(<<"then", fk>>))
    /\ UNCHANGED <<rest, perms, country, track_inventory, fetchCount, thenP>>

Variant_resolve_pricing(root) ==
    LET fk == VariantField("pricing", root.node.pk, root.channel_slug) IN
    /\ CanCall(fk)
    /\ IF ~Truthy(root.channel_slug)
       THEN /\ Plain(fk, Value(None))
            /\ UNCHANGED pricing
       ELSE /\ LoadAll({ProductKey(root.node.product_id),
                        ListingKey(root.node.product_id, root.channel_slug),
                        CollectionsKey(root.node.product_id),
                        DiscountsKey(request_time)})
            /\ pricing' = pricing @@ (fk :> PendingPricing)
            /\ Return(fk, Deferred(<<"then", fk>>))
    /\ UNCHANGED <<rest, perms, country, track_inventory, fetchCount, thenP>>

\* The load a variant pricing chain waits for at each stage.
VariantAwaits(fk) ==
    CASE pricing[fk].stage = "discounts" -> DiscountsKey(request_time)
      [] pricing[fk].stage = "product" -> ProductKey(ProductOf(fk[2]))
      [] pricing[fk].stage = "channel_listing" ->
             ListingKey(ProductOf(fk[2]), fk[3])
      [] OTHER -> CollectionsKey(ProductOf(fk[2]))

Variant_calculate_pricing_info(fk) ==
    Then(fk, "discounts", DiscountsKey(request_time), "discounts", "product")

Variant_calculate_pricing_with_product(fk) ==
    Then(fk, "product", ProductKey(ProductOf(fk[2])), "product",
         "channel_listing")

\* calculate_pricing_with_channel_listings calling the aggregator itself with
\* the collections promise as it stands, instead of chaining on it.
Variant_calculate_pricing_without_awaiting_collections(fk) ==
    LET key == ListingKey(ProductOf(fk[2]), fk[3])
        coll == CollectionsKey(ProductOf(fk[2]))
        p == pricing[fk] IN
    /\ fk \in DOMAIN pricing
    /\ p.st = "pending"
    /\ p.stage = "channel_listing"
    /\ cache[key].st = "resolved"
    /\ pricing' = [pricing EXCEPT ![fk] =
          [p EXCEPT !.channel_listing = cache[key].val,
                    !.collections = cache[coll].val,
                    !.stage = "done",
                    !.st = "resolved",
                    !.calls = @ + 1,
                    !.val = VariantPricingInfo(get_variant_availability(
                                fk[2], p.product, cache[key].val,
                                cache[coll].val, p.discounts, country))]]
    /\ PricingFrame

Variant_calculate_pricing_with_channel_listings(fk) ==
    Then(fk, "channel_listing", ListingKey(ProductOf(fk[2]), fk[3]),
         "channel_listing", "collections")

Variant_calculate_pricing_with_collections(fk) ==
    LET key == CollectionsKey(ProductOf(fk[2]))
        p == pricing[fk] IN
    /\ fk \in DOMAIN pricing
    /\ p.st = "pending"
    /\ p.stage = "collections"
    /\ cache[key].st = "resolved"
    /\ pricing' = [pricing EXCEPT ![fk] =
          [p EXCEPT !.collections = cache[key].val,
                    !.stage = "done",
                    !.st = "resolved",
                    !.calls = @ + 1,
                    !.val = VariantPricingInfo(get_variant_availability(
                                fk[2], p.product, p.channel_listing,
                                cache[key].val, p.discounts, country))]]
    /\ PricingFrame

\* The chain rejected by every failed load of the resolution, also one it
\* does not wait for and also after it has settled.
Variant_pricing_rejected_by_any_load(fk) ==
    /\ fk \in DOMAIN pricing
    /\ \E key \in {ProductKey(ProductOf(fk[2])),
                    CollectionsKey(ProductOf(fk[2])),
                    ListingKey(ProductOf(fk[2]), fk[3]),
                    DiscountsKey(request_time)} :
          /\ cache[key].st = "failed"
          /\ pricing' = [pricing EXCEPT ![fk] =
                            [@ EXCEPT !.st = "failed", !.stage = "failed",
                                      !.err = ErrOf(key)]]
    /\ PricingFrame

\* The chain given a rejection handler that returns None: the pricing
\* promise resolves to None.
Variant_pricing_rejection_swallowed(fk) ==
    /\ fk \in DOMAIN pricing
    /\ pricing[fk].st = "pending"
    /\ cache[VariantAwaits(fk)].st = "failed"
    /\ pricing' = [pricing EXCEPT ![fk] =
                      [@ EXCEPT !.st = "resolved", !.stage = "done"]]
    /\ PricingFrame

\* The chain rejected only by a failure of the discounts load.
Variant_pricing_rejected_by_discounts_only(fk) ==
    /\ fk \in DOMAIN pricing
    /\ pricing[fk].stage = "discounts"
    /\ Rejected(fk, DiscountsKey(request_time))

Variant_pricing_rejected(fk) ==
    fk \in DOMAIN pricing /\ Rejected(fk, VariantAwaits(fk))

(* Product.resolve_pricing *)
\* resolve_pricing returning None only for a slug that is None.
Product_resolve_pricing_unless_none(root) ==
    LET fk == ProductField("pricing", root.node.pk, root.channel_slug) IN
    /\ CanCall(fk)
    /\ IF root.channel_slug = None
       THEN /\ Plain(fk, Value(None))
            /\ UNCHANGED pricing
       ELSE /\ LoadAll({ListingKey(root.node.pk, root.channel_slug),
                        VariantsKey(root.node.pk),
                        CollectionsKey(root.node.pk),
                        DiscountsKey(request_time)})
            /\ pricing' = pricing @@ (fk :> PendingPricing)
            /\ Return(fk, Deferred(<<"then", fk>>))
    /\ UNCHANGED <<rest, perms, country, track_inventory, fetchCount, thenP>>

Product_resolve_pricing(root) ==
    LET fk == ProductField("pricing", root.node.pk, root.channel_slug) IN
    /\ CanCall(fk)
    /\ IF ~Truthy(root.channel_slug)
       THEN /\ Plain(fk, Value(None))
            /\ UNCHANGED pricing
       ELSE /\ LoadAll({ListingKey(root.node.pk, root.channel_slug),
                        VariantsKey(root.node.pk),
                        CollectionsKey(root.node.pk),
                        DiscountsKey(request_time)})
            /\ pricing' = pricing @@ (fk :> PendingPricing)
            /\ Return(fk, Deferred(<<"then", fk>>))
    /\ UNCHANGED <<rest, perms, country, track_inventory, fetchCount, thenP>>

ProductAwaits(fk) ==
    CASE pricing[fk].stage = "discounts" -> DiscountsKey(request_time)
      [] pricing[fk].stage = "channel_listing" -> ListingKey(fk[2], fk[3])
      [] pricing[fk].stage = "variants" -> VariantsKey(fk[2])
      [] OTHER -> CollectionsKey(fk[2])

Product_calculate_pricing_info(fk) ==
    Then(fk, "discounts", DiscountsKey(request_time), "discounts",
         "channel_listing")

Product_calculate_pricing_with_channel_listings(fk) ==
    Then(fk, "channel_listing", ListingKey(fk[2], fk[3]), "channel_listing",
         "variants")

Product_calculate_pricing_with_variants(fk) ==
    Then(fk, "variants", VariantsKey(fk[2]), "variants", "collections")

Product_calculate_pricing_with_collections(fk) ==
    LET key == CollectionsKey(fk[2])
        p == pricing[fk] IN
    /\ fk \in DOMAIN pricing
    /\ p.st = "pending"
    /\ p.stage = "collections"
    /\ cache[key].st = "resolved"
    /\ pricing' = [pricing EXCEPT ![fk] =
          [p EXCEPT !.collections = cache[key].val,
                    !.stage = "done",
                    !.st = "resolved",
                    !.calls = @ + 1,
                    !.val = ProductPricingInfo(get_product_availability(
                                fk[2], p.channel_listing, p.variants,
                                cache[key].val, p.discounts, country))]]
    /\ PricingFrame

Product_pricing_rejected(fk) ==
    fk \in DOMAIN pricing /\ Rejected(fk, ProductAwaits(fk))

VariantPricingFields == {fk \in PricingFields : fk[1] = "ProductVariant.pricing"}
ProductPricingFields == {fk \in PricingFields : fk[1] = "Product.pricing"}

(* --------------------- default field resolution ----------------------- *)
\* The attributes of the ChannelContext dataclass.
WrapperAttrs == {"node", "channel_slug"}
\* Fields of the two wrapped types that have no resolve_ method.
DefaultVariantFields == {"name", "sku", "track_inventory"}
DefaultProductFields == {"name", "slug", "minimal_variant_price"}
\* A field named like an attribute of the wrapper. The types of this file
\* declare none: it is the input on which a rule that looks at the wrapper
\* first and a rule that looks at the record alone differ.
WrapperNamedFields == {"channel_slug"}
DefaultField(type, attname, id, slug) == <<type \o "." \o attname, id, slug>>

\* graphene's default resolver on an object: getattr(obj, attname,
\* default_value).
attr_resolver(attname, default_value, obj) ==
    IF attname \in DOMAIN obj THEN obj[attname] ELSE default_value

\* resolver_with_context looking the attribute up on the wrapper first.
resolver_with_context_wrapper_first(attname, default_value, root) ==
    IF attname \in DOMAIN root
    THEN root[attname]
    ELSE attr_resolver(attname, default_value, root.node)

resolver_with_context(attname, default_value, root) ==
    attr_resolver(attname, default_value, root.node)

\* A field without a resolve_ method goes to Meta.default_resolver; its
\* default_value is None.
DefaultResolve(type, attname, root) ==
    LET fk == DefaultField(type, attname, root.node.pk, root.channel_slug) IN
    /\ CanCall(fk)
    /\ Plain(fk, Value(resolver_with_context(attname, None, root)))
    /\ Frame

(* --------- products of ProductType, Collection and Category ----------- *)
ProductTypes == {31}
Collections == {41}
\* The channel argument: omitted, empty, or a slug.
ChannelArgs == {None, "", "other-channel"}
\* Every slug a queryset may be built for.
AnyChannel == ChannelArgs \cup {"default-channel"}
ChannelQsContext(qs, channel_slug) == [qs |-> qs, channel_slug |-> channel_slug]
ConfigurationError == "ConfigurationError"
ProductsField(type, id, channel) == <<type \o ".products", id, channel>>
ProductsFields ==
    {ProductsField("ProductType", t, ch) : t \in ProductTypes, ch \in ChannelArgs}
    \cup {ProductsField("Collection", c, ch) : c \in Collections, ch \in ChannelArgs}
    \cup {ProductsField("Category", c, ch) : c \in Categories, ch \in ChannelArgs}

\* The querysets the three resolvers build for a channel.
visible_to_user(root, user, channel) ==
    <<"products.visible_to_user", root, user, channel>>
collection_sorted(root, user, channel) ==
    <<"products.collection_sorted", root, user, channel>>
published_in_tree(root, channel) ==
    <<"Product.objects.published", channel, "category__in",
      <<"get_descendants", root>> >>

ProductsFrame ==
    UNCHANGED <<perms, country, track_inventory, cache, fetchCount, loadCalls,
                thenP, pricing, category_id, default_channel, request,
                loadedBefore, thumbnail>>

\* get_default_channel_or_graphql_error(): the configured default channel,
\* or an error when there is none. Each call is one lookup.
get_default_channel_or_graphql_error ==
    IF default_channel = None
    THEN Failure(ConfigurationError)
    ELSE Value([slug |-> default_channel])

\* The body shared by the three resolvers: the default channel is looked up
\* when the argument is None, and an error of the lookup leaves the resolver.
\* qs maps a channel slug to the queryset the resolver builds for it.
ResolveProducts(fk, channel, qs) ==
    /\ CanCall(fk)
    /\ IF channel = None
       THEN /\ channel_lookups' = channel_lookups + 1
            /\ IF get_default_channel_or_graphql_error.tag = "error"
               THEN Return(fk, get_default_channel_or_graphql_error)
               ELSE LET slug == get_default_channel_or_graphql_error.v.slug IN
                    Return(fk, Value(ChannelQsContext(qs[slug], slug)))
       ELSE /\ UNCHANGED channel_lookups
            /\ Return(fk, Value(ChannelQsContext(qs[channel], channel)))
    /\ ProductsFrame

ProductType_resolve_products(root, channel) ==
    LET qs == [ch \in AnyChannel |-> visible_to_user(root, perms, ch)] IN
    ResolveProducts(ProductsField("ProductType", root, channel), channel, qs)

Collection_resolve_products(root, channel) ==
    LET qs == [ch \in AnyChannel |-> collection_sorted(root, perms, ch)] IN
    ResolveProducts(ProductsField("Collection", root, channel), channel, qs)

\* Category.resolve_products taking every falsy channel for an omitted one.
Category_resolve_products_unless_falsy(root, channel) ==
    LET qs == [ch \in AnyChannel |-> published_in_tree(root, ch)] IN
    ResolveProducts(ProductsField("Category", root, channel),
                    IF Truthy(channel) THEN channel ELSE None, qs)

Category_resolve_products(root, channel) ==
    LET qs == [ch \in AnyChannel |-> published_in_tree(root, ch)] IN
    ResolveProducts(ProductsField("Category", root, channel), channel, qs)

(* -------------------------- Product.category -------------------------- *)
CategoryField(p) == ProductField("category", p, None)

resolve_category(root) ==
    LET fk == CategoryField(root.node.pk)
        cid == root.node.category_id IN
    /\ CanCall(fk)
    /\ IF cid = NoId
       THEN Plain(fk, Value(None))
       ELSE /\ Load(CategoryKey(cid))
            /\ Return(fk, Deferred(CategoryKey(cid)))
    /\ Frame

(* -------------------------- Product.thumbnail ------------------------- *)
\* The size argument; 255 is its default.
Sizes == {255, 60}
\* None where an object is expected.
Null == [tag |-> "null"]
Image(alt, url) == [alt |-> alt, url |-> url]
get_product_image_thumbnail(image, size, method) ==
    <<"get_product_image_thumbnail", image, size, method>>
build_absolute_uri(url) == <<"build_absolute_uri", url>>
ThumbnailField(p) == ProductField("thumbnail", p, None)
ImagesField(p) == ProductField("images", p, None)

\* return_first_thumbnail picking the last image of the list.
return_last_thumbnail(images, size) ==
    LET image == IF images # <<>> THEN images[Len(images)] ELSE NoId IN
    IF image # NoId
    THEN Value(Image(<<"alt", image>>,
                     build_absolute_uri(
                         get_product_image_thumbnail(image, size, "thumbnail"))))
    ELSE Null

\* The continuation resolve_thumbnail chains on the loaded image list. An
\* image is a model instance, which is truthy.
return_first_thumbnail(images, size) ==
    LET image == IF images # <<>> THEN images[1] ELSE NoId IN
    IF image # NoId
    THEN Value(Image(<<"alt", image>>,
                     build_absolute_uri(
                         get_product_image_thumbnail(image, size, "thumbnail"))))
    ELSE Null

PendingThumbnail(size) ==
    [st |-> "pending", size |-> size, images |-> <<>>, val |-> Null,
     err |-> NoErr]

ThumbnailFrame ==
    UNCHANGED <<perms, country, track_inventory, fetchCount, thenP, pricing,
                category_id, default_channel, channel_lookups, request,
                loadedBefore>>

resolve_thumbnail(root, size) ==
    LET fk == ThumbnailField(root.node.pk) IN
    /\ CanCall(fk)
    /\ Load(ImagesKey(root.node.pk))
    /\ thumbnail' = thumbnail @@ (root.node.pk :> PendingThumbnail(size))
    /\ Return(fk, Deferred(<<"then", fk>>))
    /\ ThumbnailFrame

Product_resolve_images(root) ==
    LET fk == ImagesField(root.node.pk) IN
    /\ CanCall(fk)
    /\ Load(ImagesKey(root.node.pk))
    /\ Return(fk, Deferred(ImagesKey(root.node.pk)))
    /\ UNCHANGED thumbnail
    /\ ThumbnailFrame

\* The promise of .then(return_first_thumbnail) settles once the loaded
\* promise has: with the continuation's result, or with the same error.
ThumbnailThen(p) ==
    LET src == cache[ImagesKey(p)] IN
    /\ p \in DOMAIN thumbnail
    /\ thumbnail[p].st = "pending"
    /\ Terminal(src)
    /\ thumbnail' = [thumbnail EXCEPT ![p] =
          IF src.st = "resolved"
          THEN [@ EXCEPT !.st = "resolved", !.images = src.val,
                         !.val = return_first_thumbnail(src.val,
                                                        thumbnail[p].size)]
          ELSE [@ EXCEPT !.st = "failed", !.err = ErrOf(ImagesKey(p))]]
    /\ UNCHANGED <<cache, loadCalls, fieldResult, nCalls>>
    /\ ThumbnailFrame

(* ----------------------------- requests ------------------------------ *)
\* The response is complete and the next request arrives: with a context of
\* its own, hence loaders of its own with empty caches and no field resolved.
\* The context of the request that ended is discarded with all it held.
EndRequest ==
    /\ request < MaxRequests
    /\ \A L \in Loaders : Batch(L) = {}
    /\ \A v \in Variants : thenP[v].st # "pending"
    /\ request' = request + 1
    /\ loadedBefore' = [k \in AllKeys |->
                          IF loadCalls[k] > 0 THEN loadedBefore[k] + 1
                          ELSE loadedBefore[k]]
    /\ cache' = [k \in AllKeys |-> Absent]
    /\ loadCalls' = [k \in AllKeys |-> 0]
    /\ fieldResult' = <<>>
    /\ nCalls' = 0
    /\ thenP' = [v \in Variants |-> NoThen]
    /\ pricing' = <<>>
    /\ thumbnail' = <<>>
    /\ UNCHANGED <<perms, country, track_inventory, fetchCount, category_id,
                   default_channel, channel_lookups>>

(* --------------------------- specification ---------------------------- *)
\* The records, configuration and promises a specification leaves alone.
InitRest ==
    /\ category_id = [p \in Products |-> NoId]
    /\ default_channel = None
    /\ channel_lookups = 0
    /\ request = 1
    /\ loadedBefore = [k \in AllKeys |-> 0]
    /\ thumbnail = <<>>

InitPricing ==
    /\ perms = {}
    /\ country = "US"
    /\ track_inventory = [v \in Variants |-> TRUE]
    /\ cache = [k \in AllKeys |-> Absent]
    /\ fetchCount = [k \in AllKeys |-> 0]
    /\ loadCalls = [k \in AllKeys |-> 0]
    /\ fieldResult = <<>>
    /\ nCalls = 0
    /\ thenP = [v \in Variants |-> NoThen]
    /\ pricing = <<>>
    /\ InitRest

NextPricing ==
    \/ \E root \in VariantRoots : Variant_resolve_pricing(root)
    \/ \E fk \in VariantPricingFields : Variant_calculate_pricing_info(fk)
    \/ \E fk \in VariantPricingFields :
           Variant_calculate_pricing_with_product(fk)
    \/ \E fk \in VariantPricingFields :
           Variant_calculate_pricing_with_channel_listings(fk)
    \/ \E fk \in VariantPricingFields :
           Variant_calculate_pricing_with_collections(fk)
    \/ \E fk \in VariantPricingFields : Variant_pricing_rejected(fk)
    \/ \E root \in ProductRoots : Product_resolve_pricing(root)
    \/ \E fk \in ProductPricingFields : Product_calculate_pricing_info(fk)
    \/ \E fk \in ProductPricingFields :
           Product_calculate_pricing_with_channel_listings(fk)
    \/ \E fk \in ProductPricingFields :
           Product_calculate_pricing_with_variants(fk)
    \/ \E fk \in ProductPricingFields :
           Product_calculate_pricing_with_collections(fk)
    \/ \E fk \in ProductPricingFields : Product_pricing_rejected(fk)
    \/ \E L \in Loaders : Dispatch(L)

SpecPricing == InitPricing /\ [][NextPricing]_vars

\* One variant's and its product's pricing, both with a channel, under fair
\* scheduling: a batch with pending keys is eventually dispatched and a
\* continuation whose promise has settled eventually runs.
FairVariantFields ==
    {fk \in VariantPricingFields : fk[2] = 1 /\ fk[3] = "default-channel"}
FairProductFields ==
    {fk \in ProductPricingFields : fk[3] = "default-channel"}
FairPricingFields == FairVariantFields \cup FairProductFields

NextFairPricing ==
    \/ \E root \in VariantRoots :
           /\ VariantField("pricing", root.node.pk, root.channel_slug)
                 \in FairVariantFields
           /\ Variant_resolve_pricing(root)
    \/ \E fk \in FairVariantFields : Variant_calculate_pricing_info(fk)
    \/ \E fk \in FairVariantFields : Variant_calculate_pricing_with_product(fk)
    \/ \E fk \in FairVariantFields :
           Variant_calculate_pricing_with_channel_listings(fk)
    \/ \E fk \in FairVariantFields :
           Variant_calculate_pricing_with_collections(fk)
    \/ \E fk \in FairVariantFields : Variant_pricing_rejected(fk)
    \/ \E root \in ProductRoots :
           /\ ProductField("pricing", root.node.pk, root.channel_slug)
                 \in FairProductFields
           /\ Product_resolve_pricing(root)
    \/ \E fk \in FairProductFields : Product_calculate_pricing_info(fk)
    \/ \E fk \in FairProductFields :
           Product_calculate_pricing_with_channel_listings(fk)
    \/ \E fk \in FairProductFields : Product_calculate_pricing_with_variants(fk)
    \/ \E fk \in FairProductFields :
           Product_calculate_pricing_with_collections(fk)
    \/ \E fk \in FairProductFields : Product_pricing_rejected(fk)
    \/ \E L \in Loaders : Dispatch(L)

Fairness ==
    /\ \A L \in Loaders : WF_vars(Dispatch(L))
    /\ \A fk \in FairVariantFields :
          /\ WF_vars(Variant_calculate_pricing_info(fk))
          /\ WF_vars(Variant_calculate_pricing_with_product(fk))
          /\ WF_vars(Variant_calculate_pricing_with_channel_listings(fk))
          /\ WF_vars(Variant_calculate_pricing_with_collections(fk))
          /\ WF_vars(Variant_pricing_rejected(fk))
    /\ \A fk \in FairProductFields :
          /\ WF_vars(Product_calculate_pricing_info(fk))
          /\ WF_vars(Product_calculate_pricing_with_channel_listings(fk))
          /\ WF_vars(Product_calculate_pricing_with_variants(fk))
          /\ WF_vars(Product_calculate_pricing_with_collections(fk))
          /\ WF_vars(Product_pricing_rejected(fk))

FairSpecPricing == InitPricing /\ [][NextFairPricing]_vars /\ Fairness

Init ==
    /\ perms = {}
    /\ country = "US"
    /\ track_inventory \in [Variants -> BOOLEAN]
    /\ cache = [k \in AllKeys |-> Absent]
    /\ fetchCount = [k \in AllKeys |-> 0]
    /\ loadCalls = [k \in AllKeys |-> 0]
    /\ fieldResult = <<>>
    /\ nCalls = 0
    /\ thenP = [v \in Variants |-> NoThen]
    /\ pricing = <<>>
    /\ InitRest

InitGate ==
    /\ perms \in SUBSET {MANAGE_PRODUCTS}
    /\ country = "US"
    /\ track_inventory \in [Variants -> BOOLEAN]
    /\ cache = [k \in AllKeys |-> Absent]
    /\ fetchCount = [k \in AllKeys |-> 0]
    /\ loadCalls = [k \in AllKeys |-> 0]
    /\ fieldResult = <<>>
    /\ nCalls = 0
    /\ thenP = [v \in Variants |-> NoThen]
    /\ pricing = <<>>
    /\ InitRest

NextGate ==
    \/ \E v \in Variants, cc \in CountryArgs :
           Variant_resolve_stocks(VariantRoot(v), cc)
    \/ \E v \in Variants : Variant_resolve_digital_content(VariantRoot(v))
    \/ \E v \in Variants : Variant_resolve_margin(VariantRoot(v))
    \/ \E v \in Variants : Variant_resolve_cost_price(VariantRoot(v))
    \/ \E v \in Variants : Variant_resolve_quantity(VariantRoot(v))
    \/ \E v \in Variants : Variant_resolve_quantity_allocated(VariantRoot(v))
    \/ \E v \in Variants, period \in ReportingPeriods :
           Variant_resolve_revenue(VariantRoot(v), period)
    \/ \E p \in Products : Product_resolve_purchase_cost(ProductRoot(p))
    \/ \E p \in Products : Product_resolve_margin(ProductRoot(p))
    \/ \E p \in Products : Product_resolve_channel_listing(ProductRoot(p))
    \/ \E root \in VariantRoots : ResolveId("ProductVariant", root)
    \/ \E root \in ProductRoots : ResolveId("Product", root)
    \/ \E v \in Variants : resolve_stock_quantity(VariantRoot(v))
    \/ \E L \in Loaders : Dispatch(L)

SpecGate == InitGate /\ [][NextGate]_vars

NextStock ==
    \/ \E v \in Variants, cc \in CountryArgs :
           resolve_quantity_available(VariantRoot(v), cc)
    \/ \E v \in Variants : resolve_stock_quantity(VariantRoot(v))
    \/ \E v \in Variants : resolve_is_available(VariantRoot(v))
    \/ \E v \in Variants : IsAvailableThen(v)
    \/ \E L \in Loaders : Dispatch(L)

SpecStock == Init /\ [][NextStock]_vars

NextDefault ==
    \/ \E root \in VariantRoots :
           \E attname \in DefaultVariantFields \cup WrapperNamedFields :
               DefaultResolve("ProductVariant", attname, root)
    \/ \E root \in ProductRoots :
           \E attname \in DefaultProductFields \cup WrapperNamedFields :
               DefaultResolve("Product", attname, root)

SpecDefault == Init /\ [][NextDefault]_vars

InitProducts ==
    /\ perms \in SUBSET {MANAGE_PRODUCTS}
    /\ country = "US"
    /\ track_inventory = [v \in Variants |-> TRUE]
    /\ cache = [k \in AllKeys |-> Absent]
    /\ fetchCount = [k \in AllKeys |-> 0]
    /\ loadCalls = [k \in AllKeys |-> 0]
    /\ fieldResult = <<>>
    /\ nCalls = 0
    /\ thenP = [v \in Variants |-> NoThen]
    /\ pricing = <<>>
    /\ category_id = [p \in Products |-> NoId]
    /\ default_channel \in {None, "default-channel"}
    /\ channel_lookups = 0
    /\ request = 1
    /\ loadedBefore = [k \in AllKeys |-> 0]
    /\ thumbnail = <<>>

NextProducts ==
    \/ \E root \in ProductTypes, channel \in ChannelArgs :
           ProductType_resolve_products(root, channel)
    \/ \E root \in Collections, channel \in ChannelArgs :
           Collection_resolve_products(root, channel)
    \/ \E root \in Categories, channel \in ChannelArgs :
           Category_resolve_products(root, channel)

SpecProducts == InitProducts /\ [][NextProducts]_vars

InitShortCircuit ==
    /\ perms = {}
    /\ country = "US"
    /\ track_inventory \in [Variants -> BOOLEAN]
    /\ cache = [k \in AllKeys |-> Absent]
    /\ fetchCount = [k \in AllKeys |-> 0]
    /\ loadCalls = [k \in AllKeys |-> 0]
    /\ fieldResult = <<>>
    /\ nCalls = 0
    /\ thenP = [v \in Variants |-> NoThen]
    /\ pricing = <<>>
    /\ category_id \in [Products -> {NoId} \cup Categories]
    /\ default_channel = None
    /\ channel_lookups = 0
    /\ request = 1
    /\ loadedBefore = [k \in AllKeys |-> 0]
    /\ thumbnail = <<>>

NextShortCircuit ==
    \/ \E v \in Variants, cc \in CountryArgs :
           resolve_quantity_available(VariantRoot(v), cc)
    \/ \E v \in Variants : resolve_stock_quantity(VariantRoot(v))
    \/ \E v \in Variants : resolve_is_available(VariantRoot(v))
    \/ \E root \in {r \in VariantRoots : ~Truthy(r.channel_slug)} :
           Variant_resolve_pricing(root)
    \/ \E root \in {r \in ProductRoots : ~Truthy(r.channel_slug)} :
           Product_resolve_pricing(root)
    \/ \E p \in Products : resolve_category(ProductRoot(p))
    \/ \E L \in Loaders : Dispatch(L)

SpecShortCircuit == InitShortCircuit /\ [][NextShortCircuit]_vars

NextRequests ==
    \/ \E v \in Variants, cc \in CountryArgs :
           resolve_quantity_available(VariantRoot(v), cc)
    \/ \E L \in Loaders : Dispatch(L)
    \/ EndRequest

SpecRequests == Init /\ [][NextRequests]_vars

NextThumbnail ==
    \/ \E p \in Products, size \in Sizes : resolve_thumbnail(ProductRoot(p), size)
    \/ \E p \in Products : Product_resolve_images(ProductRoot(p))
    \/ \E p \in Products : ThumbnailThen(p)
    \/ \E L \in Loaders : Dispatch(L)

SpecThumbnail == Init /\ [][NextThumbnail]_vars

(* ============================== claims ================================ *)
IsDeferred(fk) == Result(fk).tag = "deferred"
\* The promise a field's resolver returned, when it is a loader's promise.
Handle(fk) == cache[Result(fk).p]

\* C1: every key some resolver loaded is given to the batched fetch exactly
\* once: never twice, never when no resolver asked for it, and a requested
\* key is either still in the loader's pending batch or was fetched once;
\* when the request has nothing left to run every requested key was fetched.
C1_FetchOncePerKey ==
    /\ \A k \in AllKeys :
          /\ fetchCount[k] <= 1
          /\ loadCalls[k] = 0 => fetchCount[k] = 0
          /\ loadCalls[k] > 0 =>
                \/ cache[k].st = "pending" /\ fetchCount[k] = 0
                \/ Terminal(cache[k]) /\ fetchCount[k] = 1
    /\ ~(ENABLED NextStock) =>
          \A k \in AllKeys : loadCalls[k] > 0 => fetchCount[k] = 1

\* Three sibling fields loaded one key, and it was fetched once.
C1_Witness ==
    \E k \in AllKeys : loadCalls[k] = 3 /\ fetchCount[k] = 1

\* C3: on a variant that does not track inventory, stockQuantity and
\* quantityAvailable with any country code or none return
\* MAX_CHECKOUT_LINE_QUANTITY.
C3_UntrackedReturnsSentinel ==
    \A v \in Variants :
        ~track_inventory[v] =>
            /\ Called(StockQuantityField(v)) =>
                  Result(StockQuantityField(v))
                      = Value(MAX_CHECKOUT_LINE_QUANTITY)
            /\ \A cc \in CountryArgs :
                  Called(QuantityAvailableField(v, cc)) =>
                      Result(QuantityAvailableField(v, cc))
                          = Value(MAX_CHECKOUT_LINE_QUANTITY)

\* An untracked variant answered stockQuantity and quantityAvailable with a
\* country code while the other variant's quantity was loaded.
C3_Witness ==
    \E v, w \in Variants :
        /\ ~track_inventory[v]
        /\ Called(StockQuantityField(v))
        /\ \E cc \in Countries : Called(QuantityAvailableField(v, cc))
        /\ cache[QtyKey(w, country)].st = "resolved"

\* C4: on a variant that tracks inventory, once the quantity q of the key
\* (variant id, request country) is loaded, isAvailable resolves to q > 0.
C4_IsAvailableIffPositive ==
    \A v \in Variants :
        track_inventory[v] /\ Called(IsAvailableField(v)) =>
            /\ Result(IsAvailableField(v))
                  = Deferred(<<"then", IsAvailableField(v)>>)
            /\ thenP[v].st = "resolved" =>
                  /\ cache[QtyKey(v, country)].st = "resolved"
                  /\ thenP[v].val = (cache[QtyKey(v, country)].val > 0)

\* One variant is available with a positive quantity, the other is not
\* available with quantity zero.
C4_Witness ==
    \E v, w \in Variants :
        /\ thenP[v].st = "resolved" /\ thenP[v].val
        /\ cache[QtyKey(v, country)].val > 0
        /\ thenP[w].st = "resolved" /\ ~thenP[w].val
        /\ cache[QtyKey(w, country)].val = 0

\* C9: the fields of one variant that load the key (variant id, request
\* country) hold the same promise and see the same value: stockQuantity,
\* quantityAvailable for the request country and the quantity that
\* isAvailable's continuation was given all agree.
C9_SameKeySameValue ==
    \A v \in Variants :
        LET sq == StockQuantityField(v)
            qa == QuantityAvailableField(v, country) IN
        /\ IsDeferred(sq) /\ IsDeferred(qa) =>
              Result(sq).p = Result(qa).p
        /\ \A fk \in {sq, qa} :
              IsDeferred(fk) /\ thenP[v].st = "resolved" =>
                  /\ Handle(fk).st = "resolved"
                  /\ Handle(fk).val = thenP[v].input
        /\ \A fk \in {sq, qa} :
              IsDeferred(fk) /\ thenP[v].st = "failed" =>
                  Handle(fk).st = "failed"

\* stockQuantity and isAvailable of one variant resolved on a non-zero
\* quantity after another key of the same variant resolved to another value.
C9_Witness ==
    \E v \in Variants :
        /\ IsDeferred(StockQuantityField(v))
        /\ thenP[v].st = "resolved"
        /\ thenP[v].input # 0
        /\ cache[QtyKey(v, None)].st = "resolved"
        /\ cache[QtyKey(v, None)].val # thenP[v].input

\* What an ungated field returns, whoever asks.
NormalResult(fk) ==
    IF fk \in IdFields THEN Value(fk[2])
    ELSE IF track_inventory[fk[2]] THEN Deferred(QtyKey(fk[2], country))
    ELSE Value(MAX_CHECKOUT_LINE_QUANTITY)

UngatedFields == IdFields \cup {StockQuantityField(v) : v \in Variants}

\* C2: for a requester without the manage-products permission each of
\* margin, costPrice, quantity, quantityAllocated, stocks, digitalContent of
\* a variant and purchaseCost, margin, channelListing of a product ends in
\* an AuthorizationError, and every other field resolved in the request
\* returns what it returns for any requester.
C2_GatedFieldsDenied ==
    /\ MANAGE_PRODUCTS \notin perms =>
          \A fk \in GatedFields :
              Called(fk) => Result(fk) = Failure(AuthorizationError)
    /\ \A fk \in UngatedFields :
          Called(fk) => Result(fk) = NormalResult(fk)

\* Without the permission a variant's and a product's gated field failed and
\* an id field of the same request resolved.
C2_Witness ==
    /\ MANAGE_PRODUCTS \notin perms
    /\ \E v \in Variants :
          Result(VariantField("costPrice", v, None))
              = Failure(AuthorizationError)
    /\ \E p \in Products :
          Result(ProductField("channelListing", p, None))
              = Failure(AuthorizationError)
    /\ \E fk \in IdFields : Result(fk) = Value(fk[2])

\* C10: the id field of a wrapped record is the record's primary key under
\* every channel slug of the wrapper.
C10_ResolveIdIsPrimaryKey ==
    \A fk \in IdFields :
        Called(fk) =>
            /\ Result(fk) = Value(fk[2])
            /\ \A s \in ChannelSlugs :
                  Called(<<fk[1], fk[2], s>>) =>
                      Result(<<fk[1], fk[2], s>>) = Result(fk)

\* One variant's id was resolved under two wrappers with different slugs, and
\* it is the variant's key, not its product's.
C10_Witness ==
    \E v \in Variants :
        /\ Result(VariantField("id", v, None)) = Value(v)
        /\ Result(VariantField("id", v, "default-channel")) = Value(v)
        /\ v # VariantNode(v).product_id

IsVariantPricing(fk) == fk[1] = "ProductVariant.pricing"
\* The loads of a pricing chain in the order the chain waits for them, and
\* the name each loaded value is bound to.
Awaited(fk) ==
    IF IsVariantPricing(fk)
    THEN << <<"discounts", DiscountsKey(request_time)>>,
            <<"product", ProductKey(ProductOf(fk[2]))>>,
            <<"channel_listing", ListingKey(ProductOf(fk[2]), fk[3])>>,
            <<"collections", CollectionsKey(ProductOf(fk[2]))>> >>
    ELSE << <<"discounts", DiscountsKey(request_time)>>,
            <<"channel_listing", ListingKey(fk[2], fk[3])>>,
            <<"variants", VariantsKey(fk[2])>>,
            <<"collections", CollectionsKey(fk[2])>> >>
\* What the aggregator returns on the values the loads resolved to.
ExpectedPricing(fk) ==
    LET a == Awaited(fk)
        of(i) == cache[a[i][2]].val IN
    IF IsVariantPricing(fk)
    THEN VariantPricingInfo(get_variant_availability(
             fk[2], of(2), of(3), of(4), of(1), country))
    ELSE ProductPricingInfo(get_product_availability(
             fk[2], of(2), of(3), of(4), of(1), country))

\* C5: the pricing aggregator is invoked at most once per pricing
\* resolution, only when all four loads have resolved, and on exactly the
\* values they resolved to; the pricing promise is resolved exactly when the
\* aggregator was invoked, with its result.
C5_AggregatorAfterAllLoads ==
    \A fk \in DOMAIN pricing :
        LET p == pricing[fk]
            a == Awaited(fk) IN
        /\ p.calls <= 1
        /\ (p.st = "resolved") = (p.calls = 1)
        /\ p.calls = 1 =>
              /\ \A i \in 1..4 :
                    /\ cache[a[i][2]].st = "resolved"
                    /\ p[a[i][1]] = cache[a[i][2]].val
              /\ p.val = ExpectedPricing(fk)

\* A variant's and a product's pricing were both computed, on loads that
\* resolved to different rows.
C5_Witness ==
    \E fv \in VariantPricingFields, fp \in ProductPricingFields :
        /\ Pricing(fv).calls = 1
        /\ Pricing(fp).calls = 1
        /\ Pricing(fv).product # Pricing(fv).channel_listing
        /\ Pricing(fp).variants # Pricing(fp).collections

\* C6: pricing on a wrapper whose channel slug is None or empty returns
\* None; with a channel slug it returns the deferred result of the chain.
C6_PricingNeedsChannel ==
    \A fk \in PricingFields :
        Called(fk) =>
            IF Truthy(fk[3])
            THEN Result(fk) = Deferred(<<"then", fk>>) /\ fk \in DOMAIN pricing
            ELSE Result(fk) = Value(None) /\ fk \notin DOMAIN pricing

\* A product's pricing with an empty slug and a variant's with no slug
\* returned None, a variant's with a channel returned a deferred result.
C6_Witness ==
    /\ \E p \in Products : Result(ProductField("pricing", p, "")) = Value(None)
    /\ \E v \in Variants : Result(VariantField("pricing", v, None)) = Value(None)
    /\ \E v \in Variants :
          Result(VariantField("pricing", v, "default-channel")).tag = "deferred"

\* The loads of a chain that failed, by their place in the waiting order.
FailedLoads(fk) == {i \in 1..4 : cache[Awaited(fk)[i][2]].st = "failed"}
FirstFailed(fk) ==
    CHOOSE i \in FailedLoads(fk) : \A j \in FailedLoads(fk) : i <= j

\* C7: a failed fetch rejects the promise of every key of its batch with the
\* fetch's error; a pricing chain with a failed load never invokes the
\* aggregator and never resolves, it fails only with the error of a failed
\* load (the first one the chain waits for), and when the request has
\* nothing left to run it has failed.
C7_FailurePropagates ==
    /\ \A k \in AllKeys :
          cache[k].st = "failed" => cache[k].err = UpstreamFailure(k[1])
    /\ \A fk \in DOMAIN pricing :
          LET p == pricing[fk] IN
          /\ FailedLoads(fk) # {} => p.calls = 0 /\ p.st # "resolved"
          /\ p.st = "failed" =>
                /\ FailedLoads(fk) # {}
                /\ p.err = cache[Awaited(fk)[FirstFailed(fk)][2]].err
                /\ p.err # NoErr
          /\ FailedLoads(fk) # {} /\ ~(ENABLED NextPricing) =>
                p.st = "failed"

\* The collections fetch failed after the other loads resolved: a variant's
\* and a product's pricing both failed with its error.
C7_Witness ==
    \E fv \in VariantPricingFields, fp \in ProductPricingFields :
        /\ Pricing(fv).st = "failed"
        /\ Pricing(fp).st = "failed"
        /\ Pricing(fv).err = UpstreamFailure(COLLECTIONS)
        /\ Pricing(fp).err = UpstreamFailure(COLLECTIONS)
        /\ Pricing(fv).product # 0
        /\ Pricing(fp).variants # 0

DefaultCalls ==
    {<<"ProductVariant", a, root>> :
        a \in DefaultVariantFields \cup WrapperNamedFields,
        root \in VariantRoots}
    \cup {<<"Product", a, root>> :
        a \in DefaultProductFields \cup WrapperNamedFields,
        root \in ProductRoots}
DefaultKey(c) == DefaultField(c[1], c[2], c[3].node.pk, c[3].channel_slug)
\* Field-name lookup on the wrapped record, None when it has no such
\* attribute.
OnRecord(c) == IF c[2] \in DOMAIN c[3].node THEN c[3].node[c[2]] ELSE None

ProductsOf(fk, slug) ==
    CASE fk[1] = "ProductType.products" -> visible_to_user(fk[2], perms, slug)
      [] fk[1] = "Collection.products" -> collection_sorted(fk[2], perms, slug)
      [] OTHER -> published_in_tree(fk[2], slug)

\* C12: products without a channel argument is scoped to and tagged with the
\* default channel's slug, and fails with an error and no product set when
\* none is configured; with a channel argument (an empty one too) it is
\* scoped to and tagged with that argument; the default channel is looked up
\* once per call without an argument and never for a call with one.
C12_ProductsDefaultChannel ==
    /\ \A fk \in ProductsFields :
          Called(fk) =>
              IF fk[3] # None
              THEN Result(fk) = Value(ChannelQsContext(ProductsOf(fk, fk[3]), fk[3]))
              ELSE IF default_channel = None
              THEN Result(fk) = Failure(ConfigurationError)
              ELSE Result(fk) =
                      Value(ChannelQsContext(ProductsOf(fk, default_channel),
                                             default_channel))
    /\ channel_lookups =
          Cardinality({fk \in ProductsFields : Called(fk) /\ fk[3] = None})

\* With a default channel configured, a category's products was resolved
\* without an argument and a collection's with an empty one: one lookup.
C12_Witness ==
    /\ default_channel = "default-channel"
    /\ \E c \in Categories :
          /\ Called(ProductsField("Category", c, None))
          /\ Result(ProductsField("Category", c, None)).v.channel_slug
                = "default-channel"
    /\ \E c \in Collections : Called(ProductsField("Collection", c, ""))
    /\ channel_lookups = 1

\* What the resolver under the gate returns for the field's inputs.
WrappedResult(fk) ==
    CASE fk[1] = "Product.channelListing" -> Deferred(ListingsKey(fk[2]))
      [] fk[1] = "ProductVariant.revenue" ->
             Value(<<"calculate_revenue_for_variant", fk[2],
                     reporting_period_to_date(fk[3])>>)
      [] fk[1] = "ProductVariant.stocks" ->
             Value(IF Truthy(fk[3])
                   THEN <<"stocks.for_country", fk[2], fk[3]>>
                   ELSE <<"stocks", fk[2]>>)
      [] fk[1] = "ProductVariant.digitalContent" ->
             Value(<<"digital_content", fk[2]>>)
      [] fk[1] = "ProductVariant.margin" ->
             Value(<<"get_margin_for_variant", fk[2]>>)
      [] fk[1] = "ProductVariant.costPrice" -> Value(<<"cost_price", fk[2]>>)
      [] fk[1] = "ProductVariant.quantity" ->
             Value(<<"get_available_quantity", fk[2], country>>)
      [] fk[1] = "ProductVariant.quantityAllocated" ->
             Value(<<"get_quantity_allocated", fk[2], country>>)
      [] fk[1] = "Product.purchaseCost" -> Value(<<"purchase_cost", fk[2]>>)
      [] OTHER -> Value(<<"Margin", fk[2]>>)

\* C13: for a requester with the permission a gated field returns what its
\* resolver returns, for channelListing the loader's own promise, whose key
\* was loaded and which resolves to what the fetch returned; for a requester
\* without it the field fails and the resolver's body did not run: the
\* listing key was never loaded, queued or fetched.
C13_GateDelegatesOrBlocks ==
    /\ \A fk \in GatedFields \cup RevenueFields :
          Called(fk) =>
              IF MANAGE_PRODUCTS \in perms
              THEN Result(fk) = WrappedResult(fk)
              ELSE Result(fk) = Failure(AuthorizationError)
    /\ \A p \in Products :
          LET fk == ProductField("channelListing", p, None) IN
          /\ Called(fk) /\ MANAGE_PRODUCTS \in perms =>
                /\ loadCalls[ListingsKey(p)] = 1
                /\ cache[ListingsKey(p)].st # "absent"
                /\ Handle(fk) = cache[ListingsKey(p)]
          /\ MANAGE_PRODUCTS \notin perms \/ ~Called(fk) =>
                /\ loadCalls[ListingsKey(p)] = 0
                /\ fetchCount[ListingsKey(p)] = 0
                /\ cache[ListingsKey(p)] = Absent

\* With the permission channelListing returned the loader's promise, which
\* has resolved to a loaded listing, and revenue returned its value.
C13_Witness ==
    /\ MANAGE_PRODUCTS \in perms
    /\ \E p \in Products :
          /\ IsDeferred(ProductField("channelListing", p, None))
          /\ Handle(ProductField("channelListing", p, None)).st = "resolved"
          /\ Handle(ProductField("channelListing", p, None)).val \in Rows
    /\ \E fk \in RevenueFields : Result(fk).tag = "value"

\* C14: thumbnail loads the product's image list through the images loader
\* and returns the promise chained on it; once the list is loaded the
\* thumbnail is null exactly when the list is empty, and otherwise the image
\* built from the list's first element at the requested size.
C14_ThumbnailIsFirstImage ==
    \A p \in Products :
        Called(ThumbnailField(p)) =>
            /\ Result(ThumbnailField(p)) = Deferred(<<"then", ThumbnailField(p)>>)
            /\ loadCalls[ImagesKey(p)] >= 1
            /\ p \in DOMAIN thumbnail
            /\ thumbnail[p].st = "resolved" =>
                  LET images == cache[ImagesKey(p)].val
                      t == thumbnail[p] IN
                  /\ cache[ImagesKey(p)].st = "resolved"
                  /\ (t.val = Null) = (images = <<>>)
                  /\ images # <<>> =>
                        t.val = Value(Image(<<"alt", images[1]>>,
                                  build_absolute_uri(get_product_image_thumbnail(
                                      images[1], t.size, "thumbnail"))))

\* A thumbnail of size 60 was built from the first of several images, which
\* is not the image numbered first.
C14_Witness ==
    \E p \in Products :
        /\ p \in DOMAIN thumbnail
        /\ thumbnail[p].st = "resolved"
        /\ thumbnail[p].size = 60
        /\ Len(cache[ImagesKey(p)].val) > 1
        /\ cache[ImagesKey(p)].val[1] # 1
        /\ thumbnail[p].val # Null

\* C15: a promise of the request being served was created by a load of this
\* request and settled by a fetch of this request, never by what an earlier
\* request cached: every key has been fetched once for each earlier request
\* that loaded it and once more exactly if this request has it settled; a
\* request starts with no key cached, and ending a request leaves none of
\* its promises behind.
C15_CacheScopedToRequest ==
    /\ \A k \in AllKeys :
          /\ loadCalls[k] = 0 => cache[k] = Absent
          /\ fetchCount[k] =
                loadedBefore[k] + (IF Terminal(cache[k]) THEN 1 ELSE 0)
    /\ nCalls = 0 => \A k \in AllKeys : cache[k] = Absent

\* The second request loaded a key the first had loaded: the key was fetched
\* again, twice in all, while a key only the first request loaded is absent.
C15_Witness ==
    /\ request = 2
    /\ \E k \in AllKeys :
          /\ loadedBefore[k] = 1
          /\ cache[k].st = "resolved"
          /\ fetchCount[k] = 2
    /\ \E k \in AllKeys :
          loadedBefore[k] = 1 /\ cache[k] = Absent /\ fetchCount[k] = 1

\* The four keys a pricing resolution loads.
PricingKeys(fk) == {Awaited(fk)[i][2] : i \in 1..4}

\* C16: the step in which a pricing resolver with a channel is called issues
\* one load for each of its four keys, and leaves the chain before its first
\* continuation; a key no sibling had loaded is pending after the call, a key
\* a sibling had loaded keeps the promise it had. Every other step, a
\* continuation or a fetch, issues no load.
C16_LoadsIssuedInResolverCall ==
    [][/\ \A fk \in PricingFields :
            Truthy(fk[3]) /\ fk \notin DOMAIN fieldResult
                /\ fk \in DOMAIN fieldResult' =>
                /\ \A k \in PricingKeys(fk) :
                      /\ loadCalls'[k] = loadCalls[k] + 1
                      /\ cache'[k] =
                            IF cache[k].st = "absent"
                            THEN [st |-> "pending", val |-> 0, err |-> NoErr]
                            ELSE cache[k]
                /\ Cardinality(PricingKeys(fk)) = 4
                /\ fk \in DOMAIN pricing'
                /\ pricing'[fk] = PendingPricing
       /\ fieldResult' = fieldResult => loadCalls' = loadCalls]_vars

\* A variant's pricing was computed, all four of its keys having been loaded
\* once, by the resolver call, and a product's chain has run a continuation.
C16_Witness ==
    /\ \E fv \in VariantPricingFields :
          /\ Pricing(fv).st = "resolved"
          /\ \A k \in PricingKeys(fv) : loadCalls[k] >= 1
          /\ loadCalls[ProductKey(ProductOf(fv[2]))] = 1
    /\ \E fp \in ProductPricingFields :
          Pricing(fp).stage \notin {"none", "discounts"}

\* The fields whose resolver returns at its first test, and what each
\* returns there.
ShortCircuits ==
    {fk \in StockFields : ~track_inventory[fk[2]]}
    \cup {fk \in PricingFields : ~Truthy(fk[3])}
    \cup {CategoryField(p) : p \in {q \in Products : category_id[q] = NoId}}
ShortCircuitResult(fk) ==
    IF fk \in PricingFields \/ fk[1] = "Product.category" THEN Value(None)
    ELSE IF fk[1] = "ProductVariant.isAvailable" THEN Value(TRUE)
    ELSE Value(MAX_CHECKOUT_LINE_QUANTITY)

\* C17: the call of a resolver that short-circuits (a stock field of a
\* variant that does not track inventory, pricing without a channel slug,
\* category of a product without a category) returns its immediate value and
\* changes no loader: no load is counted, no promise is created, nothing is
\* fetched. The quantity keys of an untracked variant and the category keys of
\* a product without a category stay unloaded and unfetched for the whole
\* request.
C17_ShortCircuitLoadsNothing ==
    /\ [](/\ \A v \in Variants, cc \in CountryArgs :
                ~track_inventory[v] =>
                    /\ loadCalls[QtyKey(v, cc)] = 0
                    /\ fetchCount[QtyKey(v, cc)] = 0
                    /\ cache[QtyKey(v, cc)] = Absent
          /\ (\A p \in Products : category_id[p] = NoId) =>
                \A c \in Categories :
                    loadCalls[CategoryKey(c)] = 0 /\ fetchCount[CategoryKey(c)] = 0
          /\ \A fk \in ShortCircuits :
                Called(fk) => Result(fk) = ShortCircuitResult(fk))
    /\ [][\A fk \in ShortCircuits :
             fk \notin DOMAIN fieldResult /\ fk \in DOMAIN fieldResult' =>
                 /\ loadCalls' = loadCalls
                 /\ cache' = cache
                 /\ fetchCount' = fetchCount
                 /\ pricing' = pricing
                 /\ thenP' = thenP]_vars

\* isAvailable of an untracked variant returned true, a pricing without a
\* channel slug and the category of a product without one returned None,
\* in a request whose other variant tracks inventory.
C17_Witness ==
    /\ \E v \in Variants :
          ~track_inventory[v] /\ Result(IsAvailableField(v)) = Value(TRUE)
    /\ \E v \in Variants : track_inventory[v]
    /\ \E fk \in PricingFields : ~Truthy(fk[3]) /\ Called(fk)
    /\ \E p \in Products :
          category_id[p] = NoId /\ Called(CategoryField(p))

\* C18: under fair scheduling of fetches and continuations the promise a
\* pricing resolver with a channel returned does not stay pending: whatever
\* the order in which its loads settle, it becomes resolved, which it is
\* with the aggregator's result, or failed.
C18_PricingSettles ==
    \A fk \in FairPricingFields :
        (Pricing(fk).st = "pending") ~>
            \/ Pricing(fk).st = "resolved" /\ Pricing(fk).val = ExpectedPricing(fk)
            \/ Pricing(fk).st = "failed"

\* The variant's pricing has resolved and the product's pricing has failed,
\* on the variants load, which the variant's chain does not wait for.
C18_Witness ==
    /\ \E fv \in FairVariantFields : Pricing(fv).st = "resolved"
    /\ \E fp \in FairProductFields :
          /\ Pricing(fp).st = "failed"
          /\ Pricing(fp).err = UpstreamFailure(VARIANTS)
====
